---- MODULE Spec2Model ----
(***************************************************************************)
(* Model of the document-management application: the Express routes of     *)
(* backend/routes/documents.js (upload filter and storage, Create, List,   *)
(* Update, Delete, Download) over a record store and a file system, and    *)
(* the React list view of frontend/.../DashboardList.jsx.                  *)
(*                                                                         *)
(* Strings the code computes with (file names, MIME types, titles, stored  *)
(* paths) are sequences of one-character strings, so that extname,         *)
(* toLowerCase, RegExp.test and string concatenation are computed.         *)
(***************************************************************************)
EXTENDS Integers, Sequences, FiniteSets, TLC

(***************************************************************************)
(* Bounds of the model.                                                    *)
(***************************************************************************)
MaxDocs == 1
MaxRnd == 1
MaxTime == 2
MaxIssued == 3
MaxListDocs == 3
MaxPage == 2
MaxLimit == 2
MaxServerDocs == 11
MaxFetches == 2
MaxTrigger == 2
MaxPending == 2
MaxExpired == 1

(***************************************************************************)
(* String helpers.                                                         *)
(***************************************************************************)
UpperChars == <<"A","B","C","D","E","F","G","H","I","J","K","L","M",
                "N","O","P","Q","R","S","T","U","V","W","X","Y","Z">>
LowerChars == <<"a","b","c","d","e","f","g","h","i","j","k","l","m",
                "n","o","p","q","r","s","t","u","v","w","x","y","z">>

LowerChar(c) ==
  IF \E i \in 1..26 : UpperChars[i] = c
    THEN LowerChars[CHOOSE i \in 1..26 : UpperChars[i] = c]
    ELSE c

\* String.prototype.toLowerCase
toLowerCase(s) == [i \in 1..Len(s) |-> LowerChar(s[i])]

\* whether pat occurs in s as a contiguous substring
Contains(s, pat) ==
  \E i \in 0..(Len(s) - Len(pat)) : SubSeq(s, i + 1, i + Len(pat)) = pat

IsSpace(c) == c \in {" ", "\t", "\n"}

\* String.prototype.trim (express-validator's trim sanitizer)
trim(s) ==
  LET idx == {i \in 1..Len(s) : ~IsSpace(s[i])}
  IN IF idx = {} THEN <<>>
     ELSE LET lo == CHOOSE i \in idx : \A j \in idx : i <= j
              hi == CHOOSE i \in idx : \A j \in idx : j <= i
          IN SubSeq(s, lo, hi)

Digit(d) == <<"0","1","2","3","4","5","6","7","8","9">>[d + 1]

\* Number -> decimal string, as JavaScript's number + string concatenation
RECURSIVE ToStr(_)
ToStr(n) == IF n < 10 THEN <<Digit(n)>> ELSE ToStr(n \div 10) \o <<Digit(n % 10)>>

\* path.extname: from the last "." of the name to its end; "" when there is
\* no "." or the only "." is the first character
extname(name) ==
  LET dots == {i \in 1..Len(name) : name[i] = "."}
  IN IF dots = {} THEN <<>>
     ELSE LET lastDot == CHOOSE i \in dots : \A j \in dots : j <= i
          IN IF lastDot = 1 THEN <<>> ELSE SubSeq(name, lastDot, Len(name))

(***************************************************************************)
(* Upload filter and storage (multer configuration).                       *)
(***************************************************************************)
\* the alternatives of the regular expression /pdf|doc|docx|jpg|jpeg|png/
allowedTypes ==
  { <<"p","d","f">>, <<"d","o","c">>, <<"d","o","c","x">>,
    <<"j","p","g">>, <<"j","p","e","g">>, <<"p","n","g">> }

\* RegExp.prototype.test of an unanchored alternation: some alternative
\* occurs somewhere in the string
allowedTypesTest(s) == \E t \in allowedTypes : Contains(s, t)

fileFilter(file) ==
  LET ext == allowedTypesTest(toLowerCase(extname(file.originalname)))
      mimetype == allowedTypesTest(file.mimetype)
  IN mimetype /\ ext

\* limits: { fileSize: 10 * 1024 * 1024 }
fileSizeLimit == 10 * 1024 * 1024

fieldname == <<"f","i","l","e">>
uploadPath == <<"u","p","l","o","a","d","s","/">>

\* Date.now() + '-' + Math.round(Math.random() * 1E9)
uniqueSuffix(ts, rnd) == ToStr(ts) \o <<"-">> \o ToStr(rnd)

\* the values Math.round(Math.random() * 1E9) takes in the requests
Draws == {7}
FirstDraw == CHOOSE d \in Draws : \A e \in Draws : d <= e

\* storage.filename
filename(file, ts, rnd) ==
  fieldname \o <<"-">> \o uniqueSuffix(ts, rnd) \o extname(file.originalname)

\* req.file.path: destination joined with the generated file name
storedPath(file, ts, rnd) == uploadPath \o filename(file, ts, rnd)

(***************************************************************************)
(* Inputs: users, uploaded files, request bodies.                          *)
(***************************************************************************)
Users == {"alice", "bob", "root"}

\* the users who create documents
Owners == {"alice"}

\* req.user.role
role(u) == IF u = "root" THEN "admin" ELSE "user"

pdfName == <<"a",".","p","d","f">>
pngName == <<"b",".","P","N","G">>
exeName == <<"c",".","e","x","e">>
docmName == <<"e",".","d","o","c","m">>
pdfMime == <<"a","p","p","l","i","c","a","t","i","o","n","/","p","d","f">>
pngMime == <<"i","m","a","g","e","/","p","n","g">>
htmlMime == <<"t","e","x","t","/","h","t","m","l">>
docmMime == <<"a","p","p","l","i","c","a","t","i","o","n","/","v","n","d",".",
              "m","s","-","w","o","r","d",".","d","o","c","u","m","e","n","t",
              ".","m","a","c","r","o","E","n","a","b","l","e","d",".","1","2">>

FilePng == [originalname |-> pngName, mimetype |-> pngMime, size |-> 5, bytes |-> "png"]
FileExe == [originalname |-> exeName, mimetype |-> pdfMime, size |-> 4, bytes |-> "exe"]
FileHtml == [originalname |-> pdfName, mimetype |-> htmlMime, size |-> 6, bytes |-> "html"]
FileDocm == [originalname |-> docmName, mimetype |-> docmMime, size |-> 8, bytes |-> "docm"]
FileBig == [originalname |-> pdfName, mimetype |-> pdfMime, size |-> fileSizeLimit + 1, bytes |-> "big"]

\* the uploads of the requests, and those given to the upload middleware alone
Files == {FilePng, FileExe, FileBig}
UploadFiles == {FilePng, FileExe, FileHtml, FileDocm, FileBig}

\* a request without a file part: req.file is undefined
NoFile == [absent |-> TRUE]
HasFile(f) == f # NoFile

\* the six formats the filter is meant to admit, by extension and by the
\* media type registered for each
AllowedExtensions ==
  { <<".","p","d","f">>, <<".","d","o","c">>, <<".","d","o","c","x">>,
    <<".","j","p","g">>, <<".","j","p","e","g">>, <<".","p","n","g">> }

titleTax == <<"T","a","x">>
titleRent == <<"R","e","n","t">>
titleBlank == <<" "," ">>
hostsPath == <<"/","e","t","c","/","h","o","s","t","s">>
hostsName == <<"h","o","s","t","s">>

ValidDates == {"2024-01-01", "2024-01-10", "2025-06-30"}

\* express-validator isISO8601 on the inputs of the model
isISO8601(s) == s \in ValidDates

BodyTax ==
  [title |-> titleTax, documentType |-> "License",
   issueDate |-> "2024-01-01", expiryDate |-> "2024-01-10"]
BodyBlank ==
  [title |-> titleBlank, documentType |-> "License",
   issueDate |-> "2024-01-01", expiryDate |-> "2024-01-10"]
BodyBadDate ==
  [title |-> titleTax, documentType |-> "License",
   issueDate |-> "2024-01-01", expiryDate |-> "soon"]
\* a valid body that also carries file and owner fields
BodyExtra ==
  [title |-> titleRent, documentType |-> "Contract",
   issueDate |-> "2024-01-01", expiryDate |-> "2025-06-30",
   filePath |-> hostsPath, fileName |-> hostsName, fileSize |-> 7,
   uploadedBy |-> "bob", status |-> "Renewed"]

CreateBodies == {BodyTax, BodyBlank, BodyBadDate, BodyExtra}

Has(rec, f) == f \in DOMAIN rec

\* object spread { ...a, ...b }: the fields of b override those of a
Merge(a, b) ==
  [f \in (DOMAIN a) \cup (DOMAIN b) |-> IF f \in DOMAIN b THEN b[f] ELSE a[f]]

\* the object with no fields
EmptyMap == [k \in {} |-> TRUE]

\* a finite map with key k set to v, and with key k removed
put(fn, k, v) == [q \in (DOMAIN fn) \cup {k} |-> IF q = k THEN v ELSE fn[q]]
drop(fn, k) == [q \in (DOMAIN fn) \ {k} |-> fn[q]]

(***************************************************************************)
(* State.                                                                  *)
(***************************************************************************)
VARIABLES
  docs,      \* the Document collection: _id -> record
  nextId,    \* the next _id the store assigns
  disk,      \* the file system: path -> content of the file
  now,       \* Date.now()
  last,      \* the request that ended last, with its response
  removed,   \* the _ids of the records with a stored file that a Delete
             \* has answered 200 for
  issued,    \* the file names storage.filename has generated by Upload
  pending,   \* the requests that are between two of their steps
  \* the list view in the browser
  documents,       \* the number of rows in the documents state
  loading,
  filters,
  currentPage,
  totalPages,
  refreshTrigger,  \* the counter the dashboard hands to the list view
  inflight,        \* the getAll requests that await their response
  held,            \* the number of records the store holds for the
                   \* caller, by status
  fetched,         \* [filters, currentPage, refreshTrigger] as the effect
                   \* of the list view last saw them
  analyticsFetched,\* refreshTrigger as the effect of the dashboard last
                   \* saw it
  latest           \* the response to the getAll request issued last, once
                   \* it has arrived

viewVars ==
  <<documents, loading, filters, currentPage, totalPages, refreshTrigger,
    inflight, held, fetched, analyticsFetched, latest>>

vars ==
  <<docs, nextId, disk, now, last, removed, issued, pending, documents, loading,
    filters, currentPage, totalPages, refreshTrigger, inflight, held, fetched,
    analyticsFetched, latest>>

NoRequest == [op |-> "none"]

\* fs.existsSync
existsSync(d, p) == p \in DOMAIN d
\* fs.unlinkSync
unlinkSync(d, p) == drop(d, p)
\* the write stream of multer's disk storage: creates or overwrites
writeFile(d, p, content) == put(d, p, content)

(***************************************************************************)
(* upload.single('file'): filter, size limit, storage.                     *)
(***************************************************************************)
\* the upload is refused before the route handler runs
uploadRefused(file) ==
  HasFile(file) /\ (~fileFilter(file) \/ file.size > fileSizeLimit)

\* req.file as the handler sees it
reqFile(file, ts, rnd) ==
  [path |-> storedPath(file, ts, rnd),
   originalname |-> file.originalname,
   size |-> file.size]

(***************************************************************************)
(* Document model (models/Document).                                       *)
(***************************************************************************)
SchemaFields ==
  {"title", "documentType", "documentNumber", "issuer", "issueDate",
   "expiryDate", "status", "filePath", "fileName", "fileSize", "uploadedBy"}

\* Document.create: keeps the schema's fields, assigns _id, defaults status
DocumentCreate(data, id) ==
  LET kept == [f \in (DOMAIN data) \cap SchemaFields |-> data[f]]
      withStatus == IF Has(kept, "status") THEN kept
                    ELSE Merge(kept, [status |-> "Active"])
  IN Merge(withStatus, [_id |-> id])

\* Document.findByIdAndUpdate: sets the schema's fields that updateData carries
DocumentUpdate(document, data) ==
  Merge(document, [f \in (DOMAIN data) \cap SchemaFields |-> data[f]])

\* Document.findByIdAndDelete
DocumentDelete(store, id) == drop(store, id)

\* how the database step of a request ends: done, thrown, or thrown by the
\* populate that follows the write
DbOutcomes == {"ok", "fails", "populateFails"}

(***************************************************************************)
(* checkDocumentOwnership (middleware/roleCheck): loads the record of      *)
(* req.params.id into req.document, or ends the request.                   *)
(***************************************************************************)
ownershipStatus(user, id) ==
  IF id \notin DOMAIN docs THEN 404
  ELSE IF role(user) # "admin" /\ docs[id].uploadedBy # user THEN 403
  ELSE 200

\* the answers of the check to the callers of the model
ownershipStatuses(id) == {ownershipStatus(user, id) : user \in Users}

Ids == 1..MaxDocs

(***************************************************************************)
(* POST /api/documents                                                     *)
(***************************************************************************)
\* the validation chain of the route: the fields that fail
validationErrors(body) ==
  {f \in {"title"} : ~Has(body, f) \/ trim(body[f]) = <<>>}
  \cup {f \in {"documentType"} : ~Has(body, f) \/ body[f] = ""}
  \cup {f \in {"issueDate", "expiryDate"} : ~Has(body, f) \/ ~isISO8601(body[f])}

\* documentData of the Create handler
createData(body, user, file) ==
  LET documentData == Merge(body, [uploadedBy |-> user])
  IN IF HasFile(file)
       THEN Merge(documentData,
                  [filePath |-> file.path, fileName |-> file.originalname,
                   fileSize |-> file.size])
       ELSE documentData

\* the compensating delete of the failure paths: if (req.file) unlinkSync
\* (removeUploadSkipped: a handler that leaves the upload in place)
removeUploadSkipped(d, file) == d
removeUpload(d, file) == IF HasFile(file) THEN unlinkSync(d, file.path) ELSE d

\* POST /: protect, upload.single('file'), the validators and the handler.
\* Requests are served one at a time: a request runs from its middleware to
\* its response in one step.
Create ==
  /\ UNCHANGED <<viewVars, pending>>
  /\ /\ nextId <= MaxDocs
     /\ \E user \in Owners, body \in CreateBodies, upload \in Files \cup {NoFile},
           rnd \in Draws, db \in DbOutcomes :
          LET q == [op |-> "create", user |-> user, id |-> nextId]
          IN
          IF uploadRefused(upload)
            THEN /\ db = "ok" /\ rnd = FirstDraw
                 /\ last' = Merge(q, [file |-> NoFile, refused |-> TRUE, status |-> 500])
                 /\ UNCHANGED <<docs, nextId, disk, now, removed, issued>>
            ELSE
              /\ HasFile(upload) => now < MaxTime
              /\ ~HasFile(upload) => rnd = FirstDraw
              /\ LET ts == now + 1
                     file == IF HasFile(upload) THEN reqFile(upload, ts, rnd) ELSE NoFile
                     written == IF HasFile(upload)
                                  THEN writeFile(disk, file.path, upload.bytes) ELSE disk
                     errors == validationErrors(body)
                     document == DocumentCreate(createData(body, user, file), nextId)
                 IN
                 /\ now' = IF HasFile(upload) THEN ts ELSE now
                 /\ UNCHANGED <<removed, issued>>
                 /\ IF errors # {}
                      THEN /\ db = "ok"
                           /\ disk' = removeUpload(written, file)
                           /\ last' = Merge(q, [file |-> file, refused |-> FALSE,
                                                status |-> 400])
                           /\ UNCHANGED <<docs, nextId>>
                      ELSE CASE db = "ok" ->
                                  /\ docs' = put(docs, nextId, document)
                                  /\ nextId' = nextId + 1
                                  /\ disk' = written
                                  /\ last' = Merge(q, [file |-> file, refused |-> FALSE,
                                                       status |-> 201])
                             [] db = "fails" ->
                                  /\ disk' = removeUpload(written, file)
                                  /\ last' = Merge(q, [file |-> file, refused |-> FALSE,
                                                       status |-> 500])
                                  /\ UNCHANGED <<docs, nextId>>
                             [] db = "populateFails" ->
                                  /\ docs' = put(docs, nextId, document)
                                  /\ nextId' = nextId + 1
                                  /\ disk' = removeUpload(written, file)
                                  /\ last' = Merge(q, [file |-> file, refused |-> FALSE,
                                                       status |-> 500])

(***************************************************************************)
(* PUT /api/documents/:id                                                  *)
(***************************************************************************)
BodyNone == EmptyMap
BodyTakeover ==
  [status |-> "Renewed", uploadedBy |-> "bob",
   filePath |-> hostsPath, fileName |-> hostsName]

UpdateBodies == {BodyNone, BodyTakeover}

\* a field that is present and truthy (a non-empty string)
Truthy(rec, f) == Has(rec, f) /\ rec[f] # <<>>

\* updateData of the Update handler
\* (updateDataBodyLast: the fields of req.body assigned after the file's)
updateDataBodyLast(body, file) ==
  Merge(IF HasFile(file)
          THEN [filePath |-> file.path, fileName |-> file.originalname,
                fileSize |-> file.size]
          ELSE EmptyMap,
        body)
updateData(body, file) ==
  IF HasFile(file)
    THEN Merge(body, [filePath |-> file.path, fileName |-> file.originalname,
                      fileSize |-> file.size])
    ELSE body

\* "Delete old file if exists" of the Update and Delete handlers
\* (removeStoredKept: a handler that leaves the old file in place)
removeStoredKept(d, document) == d
removeStored(d, document) ==
  IF Truthy(document, "filePath") /\ existsSync(d, document.filePath)
    THEN unlinkSync(d, document.filePath)
    ELSE d

\* req.document.filePath, "" when the record has none
storedPathOf(document) ==
  IF Truthy(document, "filePath") THEN document.filePath ELSE <<>>

\* PUT /:id: protect, checkDocumentOwnership, upload.single('file'), handler
Update ==
  /\ UNCHANGED <<viewVars, pending>>
  /\ \E id \in Ids : \E st \in ownershipStatuses(id), body \in UpdateBodies,
        upload \in Files \cup {NoFile}, rnd \in Draws, db \in DbOutcomes :
       LET q == [op |-> "update", id |-> id]
       IN
       IF st # 200
         THEN /\ rnd = FirstDraw /\ db = "ok"
              /\ last' = Merge(q, [file |-> NoFile, refused |-> FALSE, status |-> st])
              /\ UNCHANGED <<docs, nextId, disk, now, removed, issued>>
         ELSE IF uploadRefused(upload)
           THEN /\ rnd = FirstDraw /\ db = "ok"
                /\ last' = Merge(q, [file |-> NoFile, refused |-> TRUE, status |-> 500])
                /\ UNCHANGED <<docs, nextId, disk, now, removed, issued>>
           ELSE
             /\ HasFile(upload) => now < MaxTime
             /\ ~HasFile(upload) => rnd = FirstDraw
             /\ LET ts == now + 1
                    file == IF HasFile(upload) THEN reqFile(upload, ts, rnd) ELSE NoFile
                    written == IF HasFile(upload)
                                 THEN writeFile(disk, file.path, upload.bytes) ELSE disk
                    reqDocument == docs[id]
                    data == updateData(body, file)
                    cleared == IF HasFile(file)
                                 THEN removeStored(written, reqDocument) ELSE written
                    document == DocumentUpdate(docs[id], data)
                    done == Merge(q, [file |-> file, refused |-> FALSE,
                                      old |-> storedPathOf(reqDocument),
                                      sent |-> IF HasFile(upload) THEN upload.bytes
                                               ELSE ""])
                IN
                /\ now' = IF HasFile(upload) THEN ts ELSE now
                /\ UNCHANGED <<nextId, removed, issued>>
                /\ CASE db = "ok" ->
                          /\ docs' = put(docs, id, document)
                          /\ disk' = cleared
                          /\ last' = Merge(done, [status |-> 200])
                     [] db = "fails" ->
                          /\ docs' = docs
                          /\ disk' = removeUpload(cleared, file)
                          /\ last' = Merge(done, [status |-> 500])
                     [] db = "populateFails" ->
                          /\ docs' = put(docs, id, document)
                          /\ disk' = removeUpload(cleared, file)
                          /\ last' = Merge(done, [status |-> 500])

(***************************************************************************)
(* DELETE /api/documents/:id                                               *)
(***************************************************************************)
\* DELETE /:id: protect, checkDocumentOwnership, handler
Delete ==
  /\ UNCHANGED <<viewVars, pending>>
  /\ \E id \in Ids : \E st \in ownershipStatuses(id), db \in {"ok", "fails"} :
       LET q == [op |-> "delete", id |-> id]
       IN
       /\ UNCHANGED <<nextId, now, issued>>
       /\ IF st # 200
            THEN /\ db = "ok"
                 /\ last' = Merge(q, [old |-> <<>>, status |-> st])
                 /\ UNCHANGED <<docs, disk, removed>>
            ELSE /\ disk' = removeStored(disk, docs[id])
                 /\ docs' = IF db = "ok" THEN DocumentDelete(docs, id) ELSE docs
                 /\ removed' = IF db = "ok" /\ storedPathOf(docs[id]) # <<>>
                                 THEN removed \cup {id} ELSE removed
                 /\ last' = Merge(q, [old |-> storedPathOf(docs[id]),
                                      status |-> IF db = "ok" THEN 200 ELSE 500])

(***************************************************************************)
(* GET /api/documents/download/:id                                         *)
(***************************************************************************)
\* the name res.download sends: req.document.fileName
downloadName(document) ==
  IF Has(document, "fileName") THEN document.fileName ELSE <<>>

\* the handler's test for "File not found"
\* (fileMissingPathOnly: the test without fs.existsSync)
fileMissingPathOnly(d, document) == ~Truthy(document, "filePath")
fileMissing(d, document) ==
  ~Truthy(document, "filePath") \/ ~existsSync(d, document.filePath)

\* what the handler answers for req.document
downloadResponse(d, document) ==
  IF fileMissing(d, document)
    THEN [status |-> 404]
    ELSE IF existsSync(d, document.filePath)
      THEN [status |-> 200, path |-> document.filePath,
            name |-> downloadName(document), content |-> d[document.filePath]]
      \* res.download of a path that does not exist cannot send it
      ELSE [status |-> 500]

\* GET /download/:id: protect, checkDocumentOwnership, handler
Download ==
  /\ UNCHANGED <<viewVars, pending>>
  /\ \E id \in Ids : \E st \in ownershipStatuses(id) :
       LET q == [op |-> "download", id |-> id]
       IN
       /\ UNCHANGED <<docs, nextId, disk, now, removed, issued>>
       /\ IF st # 200
            THEN last' = Merge(q, [allowed |-> FALSE, status |-> st])
            ELSE last' = Merge(q, Merge([allowed |-> TRUE], downloadResponse(disk, docs[id])))

(***************************************************************************)
(* The backend, its requests served one at a time.                         *)
(***************************************************************************)
hostsFile == "hosts"

\* the statuses of the records the list view is shown with
ViewStatuses == {"Active", "Expired"}

\* the dependencies of the effect of the list view
deps == <<filters, currentPage, refreshTrigger>>

\* no response
NoResponse == [absent |-> TRUE]

\* the useState initial values of DocumentList and of Dashboard, their
\* effects run once
ViewState ==
  /\ documents = 0
  /\ loading = TRUE
  /\ filters = [status |-> "", documentType |-> "", search |-> <<>>]
  /\ currentPage = 1
  /\ totalPages = 1
  /\ refreshTrigger = 0
  /\ fetched = deps
  /\ analyticsFetched = refreshTrigger
  /\ latest = NoResponse

Init ==
  /\ docs = EmptyMap
  /\ nextId = 1
  /\ disk = put(EmptyMap, hostsPath, hostsFile)
  /\ now = 0
  /\ last = NoRequest
  /\ removed = {}
  /\ issued = <<>>
  /\ pending = {}
  /\ ViewState
  /\ inflight = {}
  /\ held = [s \in ViewStatuses |-> 0]

Next ==
  \/ Create
  \/ Update
  \/ Delete
  \/ Download

Spec == Init /\ [][Next]_vars

(***************************************************************************)
(* Properties of the backend.                                              *)
(***************************************************************************)
FileFields == {"filePath", "fileName", "fileSize"}

\* C1: when a Create or Update request that wrote an uploaded file to disk
\* ends with a 400 or 500 response, the file it wrote is not on disk.
C1_NoOrphanOnFailure ==
  (/\ last.op \in {"create", "update"}
   /\ HasFile(last.file)
   /\ last.status \in {400, 500})
  => ~existsSync(disk, last.file.path)

\* an Update that uploaded a file has ended with a 500 response
C1_Witness ==
  /\ last.op = "update"
  /\ HasFile(last.file)
  /\ last.status = 500

\* C5: after a Delete has answered 200 for a record with a stored file, the
\* record and the file are gone, and every Download of a removed record's
\* _id answers 404.
C5_DeleteRemovesRecordAndFile ==
  /\ (last.op = "delete" /\ last.status = 200 /\ last.old # <<>>)
       => /\ last.id \notin DOMAIN docs
          /\ ~existsSync(disk, last.old)
  /\ (last.op = "download" /\ last.id \in removed) => last.status = 404

\* a Download of a record that a Delete removed has been answered
C5_Witness ==
  /\ last.op = "download"
  /\ last.id \in removed

\* C6: after an Update has answered 200 with a new file for a record that had
\* a stored file, the old file is not on disk, the record's filePath,
\* fileName and fileSize are those of the new file, and a Download of the
\* record sends the new file under its original name.
C6_UpdateReplacesFile ==
  (/\ last.op = "update" /\ last.status = 200
   /\ HasFile(last.file) /\ last.old # <<>>)
  => /\ ~existsSync(disk, last.old)
     /\ last.id \in DOMAIN docs
     /\ docs[last.id].filePath = last.file.path
     /\ docs[last.id].fileName = last.file.originalname
     /\ docs[last.id].fileSize = last.file.size
     /\ downloadResponse(disk, docs[last.id]) =
          [status |-> 200, path |-> last.file.path,
           name |-> last.file.originalname, content |-> last.sent]

\* an Update has replaced the uploaded file of a record, and its request
\* body carried file fields of its own
C6_Witness ==
  /\ last.op = "update" /\ last.status = 200
  /\ HasFile(last.file)
  /\ last.old # <<>> /\ last.old # hostsPath
  /\ docs[last.id].uploadedBy = "bob"

\* C7 (as claimed): a record created without an uploaded file has no
\* filePath, fileName or fileSize; one created with a file has the uploaded
\* file's path, name and size.
C7_FileReferenceFromUploadOnly ==
  (last.op = "create" /\ last.status = 201)
  => IF HasFile(last.file)
       THEN /\ docs[last.id].filePath = last.file.path
            /\ docs[last.id].fileName = last.file.originalname
            /\ docs[last.id].fileSize = last.file.size
       ELSE (DOMAIN docs[last.id]) \cap FileFields = {}

\* C8: a Download that passed the ownership check sends the stored file
\* under the record's fileName exactly when the record has a filePath and
\* that file is on disk; otherwise it answers 404 and sends nothing.
C8_DownloadExactlyWhenStored ==
  (last.op = "download" /\ last.allowed)
  => LET document == docs[last.id] IN
     IF Truthy(document, "filePath") /\ existsSync(disk, document.filePath)
       THEN /\ last.status = 200
            /\ last.path = document.filePath
            /\ last.name = document.fileName
            /\ last.content = disk[document.filePath]
       ELSE /\ last.status = 404
            /\ ~Has(last, "content")

\* a Download of a record whose stored file is missing from disk
C8_Witness ==
  /\ last.op = "download" /\ last.allowed
  /\ Truthy(docs[last.id], "filePath")
  /\ ~existsSync(disk, docs[last.id].filePath)

\* a path inside the upload directory
InUploads(p) ==
  Len(p) >= Len(uploadPath) /\ SubSeq(p, 1, Len(uploadPath)) = uploadPath

\* C14: the owner of a record is the caller who created it: Create stores
\* uploadedBy = the caller whatever the body carries, and no request changes
\* the uploadedBy of a record that stays in the store.
C14_OwnerIsCreator ==
  [][/\ (last'.op = "create" /\ last'.status = 201 /\ last' # last)
          => docs'[last'.id].uploadedBy = last'.user
     /\ \A id \in (DOMAIN docs) \cap (DOMAIN docs') :
          docs'[id].uploadedBy = docs[id].uploadedBy]_vars

(***************************************************************************)
(* The upload middleware alone: uploads arrive at any time, several within *)
(* one millisecond, each with its own draw of Math.random.                 *)
(***************************************************************************)
\* a millisecond passes
Tick ==
  /\ UNCHANGED <<viewVars, pending>>
  /\ /\ now < MaxTime
     /\ now' = now + 1
     /\ UNCHANGED <<docs, nextId, disk, last, removed, issued>>

\* upload.single('file') on a request that carries a file
Upload ==
  /\ UNCHANGED <<viewVars, pending>>
  /\ /\ Len(issued) < MaxIssued
     /\ \E upload \in UploadFiles, rnd \in 0..MaxRnd :
          LET q == [op |-> "upload", originalname |-> upload.originalname,
                    mimetype |-> upload.mimetype]
          IN
          IF uploadRefused(upload)
            THEN /\ rnd = 0
                 /\ last' = Merge(q, [file |-> NoFile, refused |-> TRUE])
                 /\ UNCHANGED <<docs, nextId, disk, now, removed, issued>>
            ELSE LET file == reqFile(upload, now, rnd)
                 IN /\ disk' = writeFile(disk, file.path, upload.bytes)
                    /\ issued' = Append(issued, filename(upload, now, rnd))
                    /\ last' = Merge(q, [file |-> file, refused |-> FALSE])
                    /\ UNCHANGED <<docs, nextId, now, removed>>

NextUpload ==
  \/ Tick
  \/ Upload

SpecUpload == Init /\ [][NextUpload]_vars

(***************************************************************************)
(* Properties of the upload middleware.                                    *)
(***************************************************************************)
\* the media types of the six formats
AllowedMimeTypes ==
  { pdfMime, pngMime,
    <<"i","m","a","g","e","/","j","p","e","g">>,
    <<"a","p","p","l","i","c","a","t","i","o","n","/","m","s","w","o","r","d">>,
    <<"a","p","p","l","i","c","a","t","i","o","n","/","v","n","d",".",
      "o","p","e","n","x","m","l","f","o","r","m","a","t","s","-",
      "o","f","f","i","c","e","d","o","c","u","m","e","n","t",".",
      "w","o","r","d","p","r","o","c","e","s","s","i","n","g","m","l",".",
      "d","o","c","u","m","e","n","t">> }

\* C2 (as claimed): an upload is accepted only when its extension and its
\* MIME type are both among pdf, doc, docx, jpg, jpeg, png; a refused upload
\* leaves no file on disk and no record.
C2_OnlyListedTypesAccepted ==
  last.op = "upload"
  => IF /\ toLowerCase(extname(last.originalname)) \in AllowedExtensions
        /\ last.mimetype \in AllowedMimeTypes
       THEN TRUE
       ELSE /\ last.refused
            /\ ~HasFile(last.file)
            /\ docs = EmptyMap

\* C9 (as claimed): the file names generated for any two uploads differ.
C9_GeneratedNamesDistinct ==
  \A i, j \in 1..Len(issued) : i # j => issued[i] # issued[j]

(***************************************************************************)
(* GET /api/documents                                                      *)
(***************************************************************************)
\* a parameter of req.query, or its default in the destructuring
param(query, name, default) == IF Has(query, name) THEN query[name] ELSE default

\* { $regex: search, $options: 'i' } on a field, for a search of letters
regexMatch(document, field, search) ==
  Has(document, field) /\ Contains(toLowerCase(document[field]), toLowerCase(search))

\* if (status), if (documentType), if (search): present and not empty
given(params, g) ==
  Has(params, g) /\ (IF g = "search" THEN params[g] # <<>> ELSE params[g] # "")

\* the filter object the handler builds
\* (listQueryAllOwners: the filters alone, without the owner restriction)
listQueryAllOwners(user, params) ==
  [f \in {g \in {"status", "documentType", "search"} : given(params, g)}
     |-> params[f]]
listQuery(user, params) ==
  LET named == [f \in {g \in {"status", "documentType", "search"} :
                           given(params, g)}
                    |-> params[f]]
  IN IF role(user) # "admin"
       THEN Merge(named, [uploadedBy |-> user])
       ELSE named

\* whether a record satisfies the filter object
matches(document, query) ==
  /\ Has(query, "uploadedBy") => document.uploadedBy = query.uploadedBy
  /\ Has(query, "status") => document.status = query.status
  /\ Has(query, "documentType") => document.documentType = query.documentType
  /\ Has(query, "search") =>
       \/ regexMatch(document, "title", query.search)
       \/ regexMatch(document, "documentNumber", query.search)
       \/ regexMatch(document, "issuer", query.search)

\* the day a date string names, for the sort
dateValue(s) ==
  CASE s = "2024-01-01" -> 20240101
    [] s = "2024-01-10" -> 20240110
    [] s = "2025-06-30" -> 20250630

\* .sort('-expiryDate'): latest expiry first, equal dates in _id order
RECURSIVE sortByExpiryDesc(_)
sortByExpiryDesc(ids) ==
  IF ids = {} THEN <<>>
  ELSE LET first == CHOOSE i \in ids : \A j \in ids :
                      \/ dateValue(docs[i].expiryDate) > dateValue(docs[j].expiryDate)
                      \/ /\ dateValue(docs[i].expiryDate) = dateValue(docs[j].expiryDate)
                         /\ i <= j
       IN <<first>> \o sortByExpiryDesc(ids \ {first})

\* const skip = (page - 1) * limit
\* (skipFromZero: pages counted from 0)
skipFromZero(page, limit) == page * limit
skip(page, limit) == (page - 1) * limit

\* .skip(skip).limit(limit) on the sorted result
pageOf(sorted, toSkip, limit) ==
  SubSeq(sorted, toSkip + 1, IF toSkip + limit < Len(sorted) THEN toSkip + limit
                             ELSE Len(sorted))

\* Math.ceil(total / limit)
ceilDiv(total, limit) == (total + limit - 1) \div limit

\* limit = 10 when the request names none
defaultLimit == 10

\* the response of the handler to req.query = params
listResponse(user, params) ==
  LET page == param(params, "page", 1)
      limit == param(params, "limit", defaultLimit)
      query == listQuery(user, params)
      found == {id \in DOMAIN docs : matches(docs[id], query)}
      onPage == pageOf(sortByExpiryDesc(found), skip(page, limit), limit)
      total == Cardinality(found)
  IN IF skip(page, limit) < 0
       \* the store rejects a negative skip: the catch block answers
       THEN [status |-> 500]
       ELSE [status |-> 200, count |-> Len(onPage), total |-> total,
             page |-> page, pages |-> ceilDiv(total, limit),
             documents |-> onPage]

\* the filters a request names: none, an empty status as the list view sends
\* it, a status, a type, a search
FilterParams ==
  {EmptyMap, [status |-> ""], [status |-> "Active"],
   [documentType |-> "License"], [search |-> <<"t","A">>]}
\* the paging a request names: none, or a page and a page size
PagingParams ==
  {EmptyMap} \cup {[page |-> p, limit |-> l] : p \in 0..MaxPage, l \in 1..MaxLimit}

\* GET /: protect and the handler, no other request in between
List ==
  /\ UNCHANGED <<viewVars, pending>>
  /\ \E user \in Users, fi \in FilterParams, pa \in PagingParams :
       LET params == Merge(fi, pa)
       IN /\ last' = Merge([op |-> "list", user |-> user, params |-> params],
                           listResponse(user, params))
          /\ UNCHANGED <<docs, nextId, disk, now, removed, issued>>

(***************************************************************************)
(* List over any store of up to MaxListDocs records that Create has made.  *)
(***************************************************************************)
\* an owner and a valid request body
ListRecords == {<<"alice", BodyTax>>, <<"bob", BodyTax>>, <<"alice", BodyExtra>>}

\* the record Create stores for a valid request without a file
createdRecord(body, user, id) == DocumentCreate(createData(body, user, NoFile), id)

InitList ==
  /\ \E n \in 0..MaxListDocs :
       \E made \in [1..n -> ListRecords] :
         docs = [id \in 1..n |-> createdRecord(made[id][2], made[id][1], id)]
  /\ nextId = Cardinality(DOMAIN docs) + 1
  /\ disk = put(EmptyMap, hostsPath, hostsFile)
  /\ now = 0
  /\ last = NoRequest
  /\ removed = {}
  /\ issued = <<>>
  /\ pending = {}
  /\ ViewState
  /\ inflight = {}
  /\ held = [s \in ViewStatuses |-> 0]

NextList == List

SpecList == InitList /\ [][NextList]_vars

(***************************************************************************)
(* Properties of List.                                                     *)
(***************************************************************************)
\* the records that satisfy the filters of the request, whoever owns them
Selected(params) ==
  {id \in DOMAIN docs : matches(docs[id], listQueryAllOwners("root", params))}

SeqRange(seq) == {seq[i] : i \in 1..Len(seq)}

\* C3: List by a non-admin user returns only records that user owns, namely
\* the selected ones among them; List by an admin returns the selected
\* records of every owner.
C3_ListVisibility ==
  (last.op = "list" /\ last.status = 200)
  => LET own == {id \in Selected(last.params) : docs[id].uploadedBy = last.user}
         visible == IF role(last.user) = "admin" THEN Selected(last.params) ELSE own
     IN /\ SeqRange(last.documents) \subseteq visible
        /\ last.total = Cardinality(visible)
        /\ last.total <= param(last.params, "limit", defaultLimit)
             => SeqRange(last.documents) =
                  (IF param(last.params, "page", 1) = 1 THEN visible ELSE {})

\* a non-admin user has listed a store that holds a selected record of
\* another owner next to one of their own
C3_Witness ==
  /\ last.op = "list"
  /\ last.status = 200
  /\ role(last.user) # "admin"
  /\ last.total >= 1
  /\ \E id \in Selected(last.params) : docs[id].uploadedBy # last.user

\* the least number of pages of l records that hold n records
PagesNeeded(n, l) == CHOOSE k \in 0..n : k * l >= n /\ \A j \in 0..n : j * l >= n => k <= j

\* the number of records that match the query of the last List request
Matching ==
  LET own == {id \in Selected(last.params) : docs[id].uploadedBy = last.user}
  IN IF role(last.user) = "admin" THEN Cardinality(Selected(last.params))
     ELSE Cardinality(own)

\* the response to a List request counts and numbers the pages rightly
TotalsRight ==
  last.status = 200
  => /\ last.total = Matching
     /\ last.pages = PagesNeeded(Matching, param(last.params, "limit", defaultLimit))
     /\ last.count = Len(last.documents)
     /\ Cardinality(SeqRange(last.documents)) = Len(last.documents)

\* the response to a request for page ceil(N / L) or an earlier page, for
\* N records that match, holds as many records as the page should
PageFilled(N) ==
  LET L == param(last.params, "limit", defaultLimit)
      p == param(last.params, "page", 1)
  IN /\ p = PagesNeeded(N, L)
          => /\ last.status = 200
             /\ last.count = (IF N % L = 0 THEN L ELSE N % L)
     /\ (1 <= p /\ p < PagesNeeded(N, L))
          => /\ last.status = 200
             /\ last.count = L

\* C4 as stated: with N records matching the query and page size L,
\* total = N and pages = ceil(N / L); page ceil(N / L) holds N mod L records,
\* or L when L divides N; every earlier page holds L; count is the number
\* returned.  Fails for N = 0, where ceil(N / L) is page 0.
C4_PaginationAnyN ==
  last.op = "list" => (TotalsRight /\ PageFilled(Matching))

\* C4, amended: the same for N >= 1 records matching the query; for N = 0
\* the response has total = 0 and pages = 0.
C4_Pagination ==
  last.op = "list" => (TotalsRight /\ (Matching >= 1 => PageFilled(Matching)))

\* the last of several pages has been requested and holds a remainder
C4_Witness ==
  /\ last.op = "list"
  /\ last.status = 200
  /\ last.pages >= 2
  /\ last.page = last.pages
  /\ Has(last.params, "limit")
  /\ last.total % last.params.limit # 0

(***************************************************************************)
(* The list view: DocumentList inside Dashboard, against a store that is   *)
(* known by the number of the caller's records of each status.             *)
(***************************************************************************)
serverVars == <<docs, nextId, disk, now, last, removed, issued, pending>>

Min(a, b) == IF a <= b THEN a ELSE b
Max(a, b) == IF a >= b THEN a ELSE b

\* limit: 10 of fetchDocuments
viewLimit == 10

\* the options of the status select that the model chooses from
StatusChoices == {"", "Expired"}

\* the number of held records
heldTotal(h) == h["Active"] + h["Expired"]

\* the number of held records that the filters of a request select
heldMatching(h, params) ==
  IF params.status = "" THEN heldTotal(h)
  ELSE IF params.status \in DOMAIN h THEN h[params.status]
  ELSE 0

\* response.data of GET /api/documents for the held records
getAllResponse(h, params) ==
  LET total == heldMatching(h, params)
      left == total - skip(params.page, params.limit)
  IN [documents |-> Min(params.limit, Max(0, left)),
      pages |-> ceilDiv(total, params.limit)]

\* the request of fetchDocuments in a render with filters f and page p
getAllParams(f, p) == Merge(f, [page |-> p, limit |-> viewLimit])

\* every effect of the last render has run
effectsDone == fetched = deps /\ analyticsFetched = refreshTrigger

\* an event handler of the view may run: the effects of the last render
\* have run, and the model has room for the request it leads to
mayAct == effectsDone /\ Cardinality(inflight) < MaxFetches

\* fetchDocuments up to its await: the request joins those in flight, as
\* the one issued last
fetchDocuments(f, p) ==
  /\ loading' = TRUE
  /\ inflight' = {[q EXCEPT !.newest = FALSE] : q \in inflight} \cup
                   {[params |-> getAllParams(f, p), newest |-> TRUE,
                     data |-> NoResponse]}
  /\ latest' = NoResponse

\* useEffect(fetchDocuments, [filters, currentPage, refreshTrigger]) after a
\* render that changed one of the three
ListEffect ==
  /\ fetched # deps
  /\ fetched' = deps
  /\ fetchDocuments(filters, currentPage)
  /\ UNCHANGED <<documents, filters, currentPage, totalPages, refreshTrigger,
                 held, analyticsFetched>>
  /\ UNCHANGED serverVars

\* useEffect(fetchAnalytics, [refreshTrigger]) of Dashboard after a render
\* that changed refreshTrigger
DashboardEffect ==
  /\ analyticsFetched # refreshTrigger
  /\ analyticsFetched' = refreshTrigger
  /\ UNCHANGED <<documents, loading, filters, currentPage, totalPages,
                 refreshTrigger, inflight, held, fetched, latest>>
  /\ UNCHANGED serverVars

\* the server answers a request in flight
Serve ==
  \E q \in inflight :
    /\ q.data = NoResponse
    /\ inflight' = (inflight \ {q}) \cup
                     {[q EXCEPT !.data = getAllResponse(held, q.params)]}
    /\ UNCHANGED <<documents, loading, filters, currentPage, totalPages,
                   refreshTrigger, held, fetched, analyticsFetched, latest>>
    /\ UNCHANGED serverVars

\* fetchDocuments from its await on, the response arrived
FetchDone ==
  \E q \in inflight :
    /\ q.data # NoResponse
    /\ documents' = q.data.documents
    /\ totalPages' = q.data.pages
    /\ loading' = FALSE
    /\ inflight' = inflight \ {q}
    /\ latest' = IF q.newest THEN q.data ELSE latest
    /\ UNCHANGED <<filters, currentPage, refreshTrigger, held, fetched,
                   analyticsFetched>>
    /\ UNCHANGED serverVars

\* fetchDocuments from its await on, the request failed
FetchFails ==
  \E q \in inflight :
    /\ loading' = FALSE
    /\ inflight' = inflight \ {q}
    /\ UNCHANGED <<documents, totalPages, filters, currentPage, refreshTrigger,
                   held, fetched, analyticsFetched, latest>>
    /\ UNCHANGED serverVars

\* onChange of the status select
ChangeStatus ==
  \E value \in StatusChoices :
    /\ mayAct
    /\ ~loading
    /\ value # filters.status
    /\ filters' = Merge(filters, [status |-> value])
    /\ UNCHANGED <<documents, loading, currentPage, totalPages, refreshTrigger,
                   inflight, held, fetched, analyticsFetched, latest>>
    /\ UNCHANGED serverVars

\* the pagination controls are rendered
paginationShown == ~loading /\ documents # 0 /\ totalPages > 1

\* onClick of Previous
Previous ==
  /\ mayAct
  /\ paginationShown
  /\ currentPage # 1
  /\ currentPage' = Max(1, currentPage - 1)
  /\ UNCHANGED <<documents, loading, filters, totalPages, refreshTrigger,
                 inflight, held, fetched, analyticsFetched, latest>>
  /\ UNCHANGED serverVars

\* onClick of Next
NextPage ==
  /\ mayAct
  /\ paginationShown
  /\ currentPage # totalPages
  /\ currentPage' = Min(totalPages, currentPage + 1)
  /\ UNCHANGED <<documents, loading, filters, totalPages, refreshTrigger,
                 inflight, held, fetched, analyticsFetched, latest>>
  /\ UNCHANGED serverVars

\* setRefreshTrigger(prev => prev + 1)
\* (refreshKept: a handler that leaves the signal as it is)
refreshKept(prev) == prev
setRefreshTrigger(prev) == prev + 1

\* handleDelete of a row of status s, confirmed; onUpdate of Dashboard
\* advances refreshTrigger when the store has answered 200
handleDelete ==
  \E s \in ViewStatuses :
    /\ mayAct
    /\ ~loading
    /\ documents # 0
    /\ filters.status \in {"", s}
    /\ IF held[s] > 0
         THEN /\ refreshTrigger < MaxTrigger
              /\ held' = [held EXCEPT ![s] = @ - 1]
              /\ refreshTrigger' = setRefreshTrigger(refreshTrigger)
         ELSE UNCHANGED <<held, refreshTrigger>>
    /\ UNCHANGED <<documents, loading, filters, currentPage, totalPages,
                   inflight, fetched, analyticsFetched, latest>>
    /\ UNCHANGED serverVars

\* handleDocumentAdded of Dashboard: the form has created a record of
\* status s
handleDocumentAdded ==
  \E s \in ViewStatuses :
    /\ mayAct
    /\ heldTotal(held) < MaxServerDocs
    /\ refreshTrigger < MaxTrigger
    /\ held' = [held EXCEPT ![s] = @ + 1]
    /\ refreshTrigger' = setRefreshTrigger(refreshTrigger)
    /\ UNCHANGED <<documents, loading, filters, currentPage, totalPages,
                   inflight, fetched, analyticsFetched, latest>>
    /\ UNCHANGED serverVars

\* the stores the view is mounted against: no expired records or
\* MaxExpired of them, next to no active ones or as many as MaxServerDocs
\* leaves room for
InitialHeld ==
  {h \in [ViewStatuses -> 0..MaxServerDocs] :
     /\ h["Expired"] \in {0, MaxExpired}
     /\ h["Active"] \in {0, MaxServerDocs - MaxExpired}}

\* the list view mounted: its first effect has called fetchDocuments
InitUI ==
  /\ docs = EmptyMap
  /\ nextId = 1
  /\ disk = put(EmptyMap, hostsPath, hostsFile)
  /\ now = 0
  /\ last = NoRequest
  /\ removed = {}
  /\ issued = <<>>
  /\ pending = {}
  /\ ViewState
  /\ inflight = {[params |-> getAllParams(filters, currentPage), newest |-> TRUE,
                  data |-> NoResponse]}
  /\ held \in InitialHeld

NextUI ==
  \/ ListEffect
  \/ DashboardEffect
  \/ Serve
  \/ FetchDone
  \/ FetchFails
  \/ ChangeStatus
  \/ Previous
  \/ NextPage
  \/ handleDelete
  \/ handleDocumentAdded

SpecUI == InitUI /\ [][NextUI]_vars

\* the effects of a render run once the render is committed
SpecUILive ==
  InitUI /\ [][NextUI]_vars /\ WF_vars(ListEffect) /\ WF_vars(DashboardEffect)

\* C10: once every fetch has completed, 1 <= currentPage <= max(1, totalPages),
\* whatever clicks on Previous and Next, filter changes, deletions and
\* refresh signals came before.
C10_CurrentPageWithinBounds ==
  (inflight = {} /\ ~loading /\ effectsDone)
  => (1 <= currentPage /\ currentPage <= Max(1, totalPages))

\* C13: once every getAll request has ended and the one issued last has
\* been answered, the rows and totalPages on display are those of that
\* answer.
C13_LatestResponseShown ==
  (inflight = {} /\ effectsDone /\ latest # NoResponse)
  => (documents = latest.documents /\ totalPages = latest.pages)

\* the pages the view can be on
ViewPages == 1..ceilDiv(MaxServerDocs, viewLimit)

RaceUsers == {"alice"}
RaceFiles == {FilePng}
RaceBodies == {BodyTax}

\* the requests that have not ended
creating == {q \in pending : q.op = "create"}

\* a request may begin
mayBegin == Cardinality(pending) < MaxPending

\* POST /: upload.single('file'), the validators, the handler up to
\* await Document.create
CreateBegin ==
  \E user \in RaceUsers, body \in RaceBodies, upload \in RaceFiles \cup {NoFile},
     rnd \in Draws :
    /\ mayBegin
    /\ nextId + Cardinality(creating) <= MaxDocs
    /\ HasFile(upload) => now < MaxTime
    /\ validationErrors(body) = {}
    /\ LET ts == now + 1
           file == IF HasFile(upload) THEN reqFile(upload, ts, rnd) ELSE NoFile
       IN /\ now' = IF HasFile(upload) THEN ts ELSE now
          /\ disk' = IF HasFile(upload) THEN writeFile(disk, file.path, upload.bytes)
                     ELSE disk
          /\ pending' = pending \cup
               {[op |-> "create", step |-> "db", file |-> file,
                 data |-> createData(body, user, file)]}
    /\ UNCHANGED <<docs, nextId, last, removed, issued, viewVars>>

\* POST /: from await Document.create to the response
CreateEnd ==
  \E q \in creating, db \in DbOutcomes :
    /\ pending' = pending \ {q}
    /\ docs' = IF db = "fails" THEN docs
               ELSE put(docs, nextId, DocumentCreate(q.data, nextId))
    /\ nextId' = IF db = "fails" THEN nextId ELSE nextId + 1
    /\ disk' = IF db = "ok" THEN disk ELSE removeUpload(disk, q.file)
    /\ UNCHANGED <<now, last, removed, issued, viewVars>>

\* PUT /:id: checkDocumentOwnership has loaded req.document
UpdateCheck ==
  \E id \in Ids, user \in RaceUsers :
    /\ mayBegin
    /\ ownershipStatus(user, id) = 200
    /\ pending' = pending \cup
         {[op |-> "update", step |-> "upload", id |-> id, document |-> docs[id]]}
    /\ UNCHANGED <<docs, nextId, disk, now, last, removed, issued, viewVars>>

\* PUT /:id: upload.single('file') has stored the file, and the handler has
\* run up to await Document.findByIdAndUpdate
UpdateHandle ==
  \E q \in {r \in pending : r.op = "update" /\ r.step = "upload"},
     body \in {BodyNone}, upload \in RaceFiles \cup {NoFile}, rnd \in Draws :
    /\ HasFile(upload) => now < MaxTime
    /\ LET ts == now + 1
           file == IF HasFile(upload) THEN reqFile(upload, ts, rnd) ELSE NoFile
           written == IF HasFile(upload)
                        THEN writeFile(disk, file.path, upload.bytes) ELSE disk
       IN /\ now' = IF HasFile(upload) THEN ts ELSE now
          /\ disk' = IF HasFile(file) THEN removeStored(written, q.document)
                     ELSE written
          /\ pending' = (pending \ {q}) \cup
               {[op |-> "update", step |-> "db", id |-> q.id, file |-> file,
                 data |-> updateData(body, file)]}
    /\ UNCHANGED <<docs, nextId, last, removed, issued, viewVars>>

\* PUT /:id: from await Document.findByIdAndUpdate to the response; the
\* update of a record that is gone finds nothing and answers 200
UpdateEnd ==
  \E q \in {r \in pending : r.op = "update" /\ r.step = "db"},
     db \in {"ok", "fails"} :
    /\ pending' = pending \ {q}
    /\ docs' = IF db = "ok" /\ q.id \in DOMAIN docs
                 THEN put(docs, q.id, DocumentUpdate(docs[q.id], q.data))
                 ELSE docs
    /\ disk' = IF db = "ok" THEN disk ELSE removeUpload(disk, q.file)
    /\ UNCHANGED <<nextId, now, last, removed, issued, viewVars>>

\* DELETE /:id: checkDocumentOwnership, and the handler up to
\* await Document.findByIdAndDelete
DeleteBegin ==
  \E id \in Ids, user \in RaceUsers :
    /\ mayBegin
    /\ ownershipStatus(user, id) = 200
    /\ disk' = removeStored(disk, docs[id])
    /\ pending' = pending \cup {[op |-> "delete", step |-> "db", id |-> id]}
    /\ UNCHANGED <<docs, nextId, now, last, removed, issued, viewVars>>

\* DELETE /:id: from await Document.findByIdAndDelete to the response
DeleteEnd ==
  \E q \in {r \in pending : r.op = "delete"}, db \in {"ok", "fails"} :
    /\ pending' = pending \ {q}
    /\ docs' = IF db = "ok" THEN DocumentDelete(docs, q.id) ELSE docs
    /\ UNCHANGED <<nextId, disk, now, last, removed, issued, viewVars>>

NextRace ==
  \/ CreateBegin
  \/ CreateEnd
  \/ UpdateCheck
  \/ UpdateHandle
  \/ UpdateEnd
  \/ DeleteBegin
  \/ DeleteEnd

SpecRace == Init /\ [][NextRace]_vars

\* C12: whenever no request is between two of its steps, the records and
\* the upload directory agree: every record with a file reference points to
\* a file on disk, and every file in the upload directory is the filePath of
\* some record.
C12_StoreAndDiskAgree ==
  pending = {}
  => /\ \A id \in DOMAIN docs :
          Truthy(docs[id], "filePath") => existsSync(disk, docs[id].filePath)
     /\ \A p \in DOMAIN disk :
          InUploads(p) => \E id \in DOMAIN docs :
                            Truthy(docs[id], "filePath") /\ docs[id].filePath = p

====
